---- MODULE Spec2Model ----
(***************************************************************************)
(* Model of the Encoder class of encoders.py: a virtual rotary encoder     *)
(* that accumulates motion and press state and hands them to LVGL through  *)
(* the indev read callback.                                                *)
(***************************************************************************)
EXTENDS Integers, Sequences, FiniteSets, TLC

\* ---------------------------------------------------------------- bounds
MaxVal == 5          \* the guards keep _value in -MaxBelow..MaxVal
MaxBelow == 2
MaxAmount == 2       \* amounts passed to inc/dec/fast_inc/fast_dec: -1..MaxAmount
MaxTimers == 2       \* one-shot timers pending at the same time
MaxSent == 1         \* LONG_PRESSED events sent to the focused object
MaxPushes == 4       \* push calls counted in the press history
MaxScheduled == 2    \* listener calls the rotary driver has scheduled and not yet made
MaxGroups == 3       \* length of the list of groups passed to EncoderWidget

\* ------------------------------------------------------- program constants
DEF_DUR == 500       \* def_dur=500
FAST_MULT == 5       \* fast_mult=5

\* values of the model that stand for Python / LVGL values
None == "None"
PRESSED == "PRESSED"
RELEASED == "RELEASED"

Amounts == (0 - 1)..MaxAmount
FastMults == {2, FAST_MULT}
\* arguments of push: <<>> is an omitted argument, <<p>> the period p
Periods == {<<>>, <<0>>, <<100>>}

VARIABLES
  pressed,          \* self.pressed
  _lastpressed,     \* self._lastpressed
  _value,           \* self._value
  _last_value,      \* self._last_value
  _value_changed,   \* self._value_changed
  fast_mult,        \* self.fast_mult
  timers,           \* number of lv timers created by push that have not fired yet
  created,          \* the lv timer the latest operation created, if it created one
  editing,          \* indev.get_group().get_editing()
  focused,          \* indev.get_group().get_focused() is an object
  sent,             \* LONG_PRESSED events sent to the focused object
  enabled,          \* indev enabled (indev.enable)
  data,             \* what the latest call wrote to data (state, enc_diff)
  op,               \* the latest operation
  ret,              \* what the latest operation returned or raised
  pending,          \* history: sum of the amounts applied since the last read
  nmut,             \* history: inc/dec/fast_inc/fast_dec calls since the last read (0, 1, many)
  latest,           \* history: latest change of pressed since the last read
  reported,         \* history: sum of the deltas of all reads
  hist,             \* history: what the latest read coalesced
  reports,          \* history: the transitions reported by the reads, in order
  pushes,           \* history: number of push calls
  fires,            \* history: number of timer firings
  w_built,          \* an EncoderWidget has been constructed
  w_groups,         \* EncoderWidget.__init__: the list groups
  indevs,           \* EncoderWidget.indevs
  w_ret,            \* the latest EncoderWidget.get_indev call: index and result
  built,            \* EncoderIRQ(): "none", then "ok" or the exception raised
  registered,       \* an indev with read callback, group and display is known to LVGL
  pc,               \* the statement of _read_cb that runs next ("idle": not in _read_cb)
  local_value,      \* the local variable value of _read_cb
  scheduled,        \* listener calls the rotary driver still owes
  since             \* history: what happened since the latest listener call or tick

\* the state of one Encoder, with its history
core == <<pressed, _lastpressed, _value, _last_value, _value_changed, fast_mult,
          timers, created, editing, focused, sent, enabled, data, op, ret,
          pending, nmut, latest, reported, hist>>

\* press history
track == <<reports, pushes, fires>>

\* the state of an EncoderWidget
widget == <<w_built, w_groups, indevs, w_ret>>

\* the state EncoderIRQ adds: construction, the rotary driver, _read_cb in steps
irq == <<built, registered, pc, local_value, scheduled, since>>

ext == <<track, widget, irq>>

vars == <<core, ext>>

encoder == <<pressed, _lastpressed, _value, _last_value, _value_changed>>
group == <<editing, focused, sent>>

\* data of a read: enc_diff is <<>> when it was not written, <<d>> when d was written
NoData == [state |-> None, enc_diff |-> <<>>]

\* result of a call: nothing, an integer, the indev, or an exception
Ret(kind, val) == [kind |-> kind, val |-> val]
RetNone == Ret("None", 0)

\* the delta the GUI sees: an enc_diff that was not written counts as zero
DeltaOf(d) == IF d.enc_diff = <<>> THEN 0 ELSE d.enc_diff[1]

\* no lv timer was created; asked is the period argument push was called with
NoTimer == [period |-> 0, repeat_count |-> 0, asked |-> <<>>]

\* no EncoderWidget.get_indev call yet
NoCall == [index |-> 0, kind |-> None, id |-> 0]

\* history of an operation that is not a read
NoHist == [nmut |-> 0, latest |-> None, after_read |-> FALSE]

Bump(n) == IF n < 2 THEN n + 1 ELSE 2

InRange(v) == v >= 0 - MaxBelow /\ v <= MaxVal

\* ------------------------------------------------------------------ Init
\* Encoder.__init__ with the given multiplier, on a group in the given state
Construct(mult, ed, foc) ==
  /\ pressed = FALSE
  /\ _lastpressed = FALSE
  /\ _value = 0
  /\ _last_value = 0
  /\ _value_changed = FALSE
  /\ fast_mult = mult
  /\ timers = 0
  /\ created = NoTimer
  /\ editing = ed
  /\ focused = foc
  /\ sent = 0
  /\ enabled = TRUE
  /\ data = NoData
  /\ op = "init"
  /\ ret = RetNone
  /\ pending = 0
  /\ nmut = 0
  /\ latest = None
  /\ reported = 0
  /\ hist = NoHist

\* no interrupt since the latest read
NoRace == [phase |-> "done", raced |-> FALSE]

\* no widget, no EncoderIRQ, no history
ExtInit ==
  /\ reports = <<>>
  /\ pushes = 0
  /\ fires = 0
  /\ w_built = FALSE
  /\ w_groups = <<>>
  /\ indevs = <<>>
  /\ w_ret = NoCall
  /\ built = "none"
  /\ registered = FALSE
  /\ pc = "idle"
  /\ local_value = 0
  /\ scheduled = 0
  /\ since = NoRace

\* Encoder() with the default multiplier, on a group in any state
Init ==
  /\ \E ed \in BOOLEAN, foc \in BOOLEAN : Construct(FAST_MULT, ed, foc)
  /\ ExtInit

\* Encoder(fast_mult=m) on a group with nothing focused
InitEncoder ==
  /\ \E mult \in FastMults : Construct(mult, FALSE, FALSE)
  /\ ExtInit

\* ------------------------------------------------------- counter operations
\* variant: the flag is left as it was
_set_value_changed_Noop(changed) == changed

_set_value_changed(changed) == TRUE

IncValue(v, diff) == v + diff

DecValue(v, diff) == v - diff

\* variant: the multiplier is forgotten
FastIncValue_NoMult(v, diff, mult) == v + diff

FastIncValue(v, diff, mult) == v + diff * mult

FastDecValue(v, diff, mult) == v - diff * mult

\* the four counter operations: newvalue is the counter they compute,
\* amount the signed amount the caller asked for (history only)
Move(name, newvalue, amount) ==
  /\ InRange(newvalue)
  /\ _value' = newvalue
  /\ _value_changed' = _set_value_changed(_value_changed)
  /\ pending' = pending + amount
  /\ nmut' = Bump(nmut)
  /\ op' = name
  /\ ret' = RetNone
  /\ data' = NoData
  /\ created' = NoTimer
  /\ hist' = NoHist
  /\ UNCHANGED <<pressed, _lastpressed, _last_value, fast_mult, timers, group,
                 enabled, latest, reported>>

inc == \E diff \in Amounts : Move("inc", IncValue(_value, diff), diff)

dec == \E diff \in Amounts : Move("dec", DecValue(_value, diff), 0 - diff)

fast_inc == \E diff \in Amounts :
  Move("fast_inc", FastIncValue(_value, diff, fast_mult), diff * fast_mult)

fast_dec == \E diff \in Amounts :
  Move("fast_dec", FastDecValue(_value, diff, fast_mult), 0 - (diff * fast_mult))

\* --------------------------------------------------------- press operations
\* history: the latest transition, p being the press state an operation leaves
Transition(p) ==
  IF p = pressed THEN latest ELSE IF p THEN PRESSED ELSE RELEASED

press_cb_value == TRUE

\* variant: release_cb leaves the encoder pressed
release_cb_value_Stuck == TRUE

release_cb_value == FALSE

\* period actually given to the timer by push(period)
PushPeriod(period) ==
  IF period = <<>> THEN DEF_DUR
  ELSE IF period[1] = 0 THEN DEF_DUR ELSE period[1]

push == \E period \in Periods :
  /\ timers < MaxTimers
  /\ pressed' = press_cb_value
  /\ timers' = timers + 1
  /\ created' = [period |-> PushPeriod(period), repeat_count |-> 1,
                  asked |-> period]
  /\ latest' = Transition(pressed')
  /\ op' = "push"
  /\ ret' = RetNone
  /\ data' = NoData
  /\ hist' = NoHist
  /\ UNCHANGED <<_lastpressed, _value, _last_value, _value_changed, fast_mult,
                 group, enabled, pending, nmut, reported>>

press_cb ==
  /\ pressed' = press_cb_value
  /\ latest' = Transition(pressed')
  /\ op' = "press_cb"
  /\ ret' = RetNone
  /\ data' = NoData
  /\ created' = NoTimer
  /\ hist' = NoHist
  /\ UNCHANGED <<_lastpressed, _value, _last_value, _value_changed, fast_mult,
                 timers, group, enabled, pending, nmut, reported>>

release_cb ==
  /\ pressed' = release_cb_value
  /\ latest' = Transition(pressed')
  /\ op' = "release_cb"
  /\ ret' = RetNone
  /\ data' = NoData
  /\ created' = NoTimer
  /\ hist' = NoHist
  /\ UNCHANGED <<_lastpressed, _value, _last_value, _value_changed, fast_mult,
                 timers, group, enabled, pending, nmut, reported>>

\* a one-shot timer created by push expires: its callback calls release_cb
TimerFire ==
  /\ timers > 0
  /\ timers' = timers - 1
  /\ created' = NoTimer
  /\ pressed' = release_cb_value
  /\ latest' = Transition(pressed')
  /\ op' = "timer"
  /\ ret' = RetNone
  /\ data' = NoData
  /\ hist' = NoHist
  /\ UNCHANGED <<_lastpressed, _value, _last_value, _value_changed, fast_mult,
                 group, enabled, pending, nmut, reported>>

\* ------------------------------------------------------------ long_push
\* editing mode of the group after long_push
LongPushEditing(ed, foc) == IF ed THEN FALSE ELSE ed

\* LONG_PRESSED events sent by long_push
\* variant: the elif is an if, the event is sent in editing mode too
LongPushSends_NoElse(ed, foc) == IF foc THEN 1 ELSE 0

LongPushSends(ed, foc) == IF ed THEN 0 ELSE IF foc THEN 1 ELSE 0

long_push ==
  /\ sent + LongPushSends(editing, focused) <= MaxSent
  /\ editing' = LongPushEditing(editing, focused)
  /\ sent' = sent + LongPushSends(editing, focused)
  /\ op' = "long_push"
  /\ ret' = RetNone
  /\ data' = NoData
  /\ created' = NoTimer
  /\ hist' = NoHist
  /\ UNCHANGED <<encoder, fast_mult, timers, focused, enabled,
                 pending, nmut, latest, reported>>

\* ------------------------------------------------------------------ value
value ==
  /\ op' = "value"
  /\ ret' = Ret("int", _value)
  /\ data' = NoData
  /\ created' = NoTimer
  /\ hist' = NoHist
  /\ UNCHANGED <<encoder, fast_mult, timers, group, enabled,
                 pending, nmut, latest, reported>>

\* --------------------------------------------------------------- _read_cb
\* variant: the press level is written on every read
ReadState_Level == IF pressed THEN PRESSED ELSE RELEASED

ReadState == IF pressed # _lastpressed
               THEN (IF pressed THEN PRESSED ELSE RELEASED)
               ELSE None

\* variant: the counter itself is written, not the difference
ReadDiff_Absolute == IF _value_changed THEN <<_value>> ELSE <<>>

ReadDiff == IF _value_changed THEN <<_value - _last_value>> ELSE <<>>

\* variant: _last_value is not updated
ReadLastValue_Stale == _last_value

ReadLastValue == IF _value_changed THEN _value ELSE _last_value

\* variant: _lastpressed is not updated
ReadLastPressed_Stale == _lastpressed

ReadLastPressed == pressed

\* variant: the flag is not cleared
ReadValueChanged_Kept == _value_changed

ReadValueChanged == FALSE

\* variant: reading rewinds the counter to the value last reported
ReadValue_Rewound == _last_value

ReadValue == _value

_read_cb ==
  /\ data' = [state |-> ReadState, enc_diff |-> ReadDiff]
  /\ created' = NoTimer
  /\ _lastpressed' = ReadLastPressed
  /\ _value_changed' = ReadValueChanged
  /\ _last_value' = ReadLastValue
  /\ _value' = ReadValue
  /\ pressed' = pressed
  /\ op' = "read"
  /\ ret' = Ret("int", 0)
  /\ pending' = 0
  /\ nmut' = 0
  /\ latest' = None
  /\ reported' = reported + DeltaOf(data')
  /\ hist' = [nmut |-> nmut, latest |-> latest, after_read |-> (op = "read")]
  /\ UNCHANGED <<fast_mult, timers, group, enabled>>

\* ------------------------------------------------------ delete, get_indev
delete ==
  /\ enabled' = FALSE
  /\ op' = "delete"
  /\ ret' = RetNone
  /\ data' = NoData
  /\ created' = NoTimer
  /\ hist' = NoHist
  /\ UNCHANGED <<encoder, fast_mult, timers, group,
                 pending, nmut, latest, reported>>

Indexes == (0 - 1)..1

\* variant: the index is not checked
GetIndevRet_Any(index) == Ret("indev", index)

\* the indev for index 0, ValueError (val: the index asked for) otherwise
GetIndevRet(index) ==
  IF index = 0 THEN Ret("indev", 0) ELSE Ret("ValueError", index)

get_indev == \E index \in Indexes :
  /\ op' = "get_indev"
  /\ ret' = GetIndevRet(index)
  /\ data' = NoData
  /\ created' = NoTimer
  /\ hist' = NoHist
  /\ UNCHANGED <<encoder, fast_mult, timers, group, enabled,
                 pending, nmut, latest, reported>>

\* the operations of a plain Encoder leave everything outside it alone
NextEncoder ==
  \/ (inc /\ UNCHANGED ext)
  \/ (dec /\ UNCHANGED ext)
  \/ (fast_inc /\ UNCHANGED ext)
  \/ (fast_dec /\ UNCHANGED ext)
  \/ (push /\ UNCHANGED ext)
  \/ (press_cb /\ UNCHANGED ext)
  \/ (release_cb /\ UNCHANGED ext)
  \/ (TimerFire /\ UNCHANGED ext)
  \/ (value /\ UNCHANGED ext)
  \/ (_read_cb /\ UNCHANGED ext)

SpecEncoder == InitEncoder /\ [][NextEncoder]_vars

Next ==
  \/ NextEncoder
  \/ (long_push /\ UNCHANGED ext)
  \/ (delete /\ UNCHANGED ext)
  \/ (get_indev /\ UNCHANGED ext)

Spec == Init /\ [][Next]_vars

\* ------------------------------------------------- the GUI polls the indev
\* delete hands LVGL indev.enable(False); LVGL's read timer calls the read
\* callback registered by set_read_cb only while the indev is enabled
\* variant: LVGL calls the read callback of a disabled indev as well
Polled_Always == TRUE

Polled == enabled

Poll ==
  /\ Polled
  /\ _read_cb

\* Encoder() with the defaults on a group with nothing focused
InitGui ==
  /\ Construct(FAST_MULT, FALSE, FALSE)
  /\ ExtInit

\* an Encoder whose only reader is the GUI
NextGui ==
  \/ (inc /\ UNCHANGED ext)
  \/ (dec /\ UNCHANGED ext)
  \/ (fast_inc /\ UNCHANGED ext)
  \/ (fast_dec /\ UNCHANGED ext)
  \/ (push /\ UNCHANGED ext)
  \/ (TimerFire /\ UNCHANGED ext)
  \/ (delete /\ UNCHANGED ext)
  \/ (Poll /\ UNCHANGED ext)

SpecGui == InitGui /\ [][NextGui]_vars

\* ------------------------------------------- pushes, timers, reads counted
PushCounted ==
  /\ pushes < MaxPushes
  /\ push
  /\ pushes' = pushes + 1
  /\ UNCHANGED <<reports, fires, widget, irq>>

\* the one firing of a timer created by push (set_repeat_count(1))
TimerCounted ==
  /\ TimerFire
  /\ fires' = fires + 1
  /\ UNCHANGED <<reports, pushes, widget, irq>>

\* a read, the transition it writes appended to what the GUI has been told
ReadRecorded ==
  /\ _read_cb
  /\ reports' = IF data'.state = None THEN reports
                ELSE Append(reports, data'.state)
  /\ UNCHANGED <<pushes, fires, widget, irq>>

InitPress ==
  /\ Construct(FAST_MULT, FALSE, FALSE)
  /\ ExtInit

NextPress ==
  \/ PushCounted
  \/ TimerCounted
  \/ ReadRecorded

\* an LVGL timer, once created, fires: nothing in the code deletes or pauses it
SpecPress == InitPress /\ [][NextPress]_vars /\ WF_vars(TimerCounted)

\* -------------------------------------------------------------- EncoderIRQ
\* the class Rotary that EncoderIRQ inherits: the driver of micropython-rotary
\* or the empty placeholder class
Drivers == {"rotary", "placeholder"}

\* what EncoderIRQ() raises with the placeholder: add_listener is missing
\* (AttributeError, turned into ImportError); with arguments, the __init__
\* the empty class inherits from object either is missing (ImportError) or
\* rejects them (TypeError, not caught), depending on the build
InitErrors(hasargs) == IF hasargs THEN {"ImportError", "TypeError"}
                       ELSE {"ImportError"}

irqframe == <<pressed, fast_mult, timers, created, group, enabled,
              pending, nmut, latest, hist, track, widget>>

\* EncoderIRQ(*args): Encoder.__init__ runs first and registers the indev,
\* then Rotary.__init__ and add_listener
EncoderIRQ_init ==
  /\ built = "none"
  /\ \E drv \in Drivers, hasargs \in BOOLEAN :
       /\ drv = "rotary" => hasargs
       /\ built' \in (IF drv = "rotary" THEN {"ok"} ELSE InitErrors(hasargs))
  /\ registered' = TRUE
  /\ pressed' = FALSE
  /\ _lastpressed' = FALSE
  /\ _value' = 0
  /\ _last_value' = 0
  /\ _value_changed' = FALSE
  /\ fast_mult' = FAST_MULT
  /\ op' = "init"
  /\ UNCHANGED <<timers, created, group, enabled, data, ret, pending, nmut,
                 latest, reported, hist, track, widget,
                 pc, local_value, scheduled, since>>

\* the driver's pin interrupt: the counter moves one step and a call of the
\* listeners is scheduled
IrqTick ==
  /\ built = "ok"
  /\ scheduled < MaxScheduled
  /\ \E d \in {0 - 1, 1} :
       /\ InRange(_value + d)
       /\ _value' = _value + d
  /\ scheduled' = scheduled + 1
  /\ since' = [phase |-> "dirty", raced |-> since.raced \/ pc # "idle"]
  /\ UNCHANGED <<_lastpressed, _last_value, _value_changed, data, op, ret,
                 reported, irqframe, built, registered, pc, local_value>>

\* the driver calls the listener registered by add_listener
IrqListener ==
  /\ scheduled > 0
  /\ _value_changed' = _set_value_changed(TRUE)
  /\ scheduled' = scheduled - 1
  /\ since' = [phase |-> "dirty", raced |-> since.raced \/ pc # "idle"]
  /\ UNCHANGED <<_lastpressed, _value, _last_value, data, op, ret,
                 reported, irqframe, built, registered, pc, local_value>>

\* _read_cb statement by statement; LVGL calls it once the indev is registered
\* lines 121-126
ReadBegin ==
  /\ registered
  /\ pc = "idle"
  /\ data' = [state |-> ReadState, enc_diff |-> <<>>]
  /\ _lastpressed' = ReadLastPressed
  /\ pc' = "l128"
  /\ since' = [since EXCEPT !.phase = IF @ = "dirty" THEN "reading" ELSE @]
  /\ UNCHANGED <<_value, _last_value, _value_changed, op, ret, reported,
                 irqframe, built, registered, local_value, scheduled>>

\* line 128: if self._value_changed
Read128 ==
  /\ pc = "l128"
  /\ pc' = IF _value_changed THEN "l129" ELSE "l134"
  /\ UNCHANGED <<_lastpressed, _value, _last_value, _value_changed, data, op,
                 ret, reported, irqframe, built, registered, local_value,
                 scheduled, since>>

\* line 129: self._value_changed = False
Read129 ==
  /\ pc = "l129"
  /\ _value_changed' = ReadValueChanged
  /\ pc' = "l130"
  /\ UNCHANGED <<_lastpressed, _value, _last_value, data, op, ret, reported,
                 irqframe, built, registered, local_value, scheduled, since>>

\* line 130: value = self.value()
Read130 ==
  /\ pc = "l130"
  /\ local_value' = _value
  /\ pc' = "l131"
  /\ UNCHANGED <<_lastpressed, _value, _last_value, _value_changed, data, op,
                 ret, reported, irqframe, built, registered, scheduled, since>>

\* line 131: data.enc_diff = value - self._last_value
Read131 ==
  /\ pc = "l131"
  /\ data' = [data EXCEPT !.enc_diff = <<local_value - _last_value>>]
  /\ reported' = reported + (local_value - _last_value)
  /\ pc' = "l132"
  /\ UNCHANGED <<_lastpressed, _value, _last_value, _value_changed, op, ret,
                 irqframe, built, registered, local_value, scheduled, since>>

\* variant: line 132 reads the counter again
StoreLastValue_Reread == _value

StoreLastValue == local_value

\* line 132: self._last_value = value
Read132 ==
  /\ pc = "l132"
  /\ _last_value' = StoreLastValue
  /\ pc' = "l134"
  /\ UNCHANGED <<_lastpressed, _value, _value_changed, data, op, ret,
                 reported, irqframe, built, registered, local_value,
                 scheduled, since>>

\* line 134: return 0
Read134 ==
  /\ pc = "l134"
  /\ pc' = "idle"
  /\ op' = "read"
  /\ ret' = Ret("int", 0)
  /\ since' = [since EXCEPT !.phase = IF @ = "reading" THEN "done" ELSE @]
  /\ UNCHANGED <<_lastpressed, _value, _last_value, _value_changed, data,
                 reported, irqframe, built, registered, local_value, scheduled>>

\* before EncoderIRQ() is called
InitIRQ ==
  /\ Construct(FAST_MULT, FALSE, FALSE)
  /\ ExtInit

NextIRQ ==
  \/ EncoderIRQ_init
  \/ IrqTick
  \/ IrqListener
  \/ ReadBegin
  \/ Read128
  \/ Read129
  \/ Read130
  \/ Read131
  \/ Read132
  \/ Read134

SpecIRQ == InitIRQ /\ [][NextIRQ]_vars

\* ----------------------------------------------------------- EncoderWidget
Groups == {"g1", "g2"}

DefaultGroup == "default"

\* sequences over S of length at most n
RECURSIVE SeqsUpTo(_, _)
SeqsUpTo(S, n) ==
  IF n = 0 THEN {<<>>}
  ELSE LET shorter == SeqsUpTo(S, n - 1)
       IN  shorter \cup {Append(s, x) : s \in shorter, x \in S}

\* the argument group of EncoderWidget(): None, one group, or a list whose
\* entries are groups or None
GroupArgs ==
  {[kind |-> None, items |-> <<>>]}
  \cup {[kind |-> "group", items |-> <<g>>] : g \in Groups}
  \cup {[kind |-> "list", items |-> l] : l \in SeqsUpTo(Groups \cup {None}, MaxGroups)}

\* lines 199-205: the list groups
WidgetGroups(arg) == IF arg.kind = None THEN <<DefaultGroup>> ELSE arg.items

\* Encoder.__init__, line 55: group if group else the default group
EncoderGroup(g) == IF g = None THEN DefaultGroup ELSE g

\* for g in groups: _create_encoder(g), which appends the new Encoder's indev;
\* id numbers the indevs in the order lv.indev_create() made them
RECURSIVE CreateEncoders(_, _)
CreateEncoders(groups, made) ==
  IF groups = <<>> THEN made
  ELSE CreateEncoders(Tail(groups),
                      Append(made, [id |-> Len(made) + 1,
                                    group |-> EncoderGroup(Head(groups))]))

EncoderWidget_init ==
  /\ ~w_built
  /\ \E arg \in GroupArgs :
       /\ w_groups' = WidgetGroups(arg)
       /\ indevs' = CreateEncoders(WidgetGroups(arg), <<>>)
  /\ w_built' = TRUE
  /\ w_ret' = NoCall
  /\ UNCHANGED <<core, track, irq>>

\* list[index] of a Python list of length n: the position (from 1) it reads,
\* 0 when it raises IndexError
ListIndex(n, index) ==
  IF index >= 0 /\ index < n THEN index + 1
  ELSE IF index < 0 /\ index >= 0 - n THEN n + index + 1
  ELSE 0

\* EncoderWidget.get_indev(index): return self.indevs[index]
EncoderWidget_get_indev ==
  /\ w_built
  /\ \E index \in (0 - Len(indevs) - 1)..Len(indevs) :
       LET k == ListIndex(Len(indevs), index)
       IN  w_ret' = IF k = 0
                    THEN [index |-> index, kind |-> "IndexError", id |-> 0]
                    ELSE [index |-> index, kind |-> "indev", id |-> indevs[k].id]
  /\ UNCHANGED <<core, track, irq, w_built, w_groups, indevs>>

InitWidget ==
  /\ Construct(FAST_MULT, FALSE, FALSE)
  /\ ExtInit

NextWidget ==
  \/ EncoderWidget_init
  \/ EncoderWidget_get_indev

SpecWidget == InitWidget /\ [][NextWidget]_vars

\* ====================================================================
\* Properties
\* ====================================================================
CounterOps == {"inc", "dec", "fast_inc", "fast_dec"}

\* C1: whatever inc/dec/fast_inc/fast_dec calls were made since the last
\* read, the next _read_cb reports one delta, the sum of the amounts applied
\* (fast amounts multiplied by fast_mult); it writes enc_diff exactly once
\* when at least one call was made.
C1_ReadReportsSum ==
  [][_read_cb => /\ DeltaOf(data') = pending
                 /\ (nmut > 0 => data'.enc_diff = <<pending>>)]_vars

\* several calls were summed into one delta of 5
C1_Witness ==
  /\ op = "read"
  /\ hist.nmut = 2
  /\ fast_mult = FAST_MULT
  /\ data.enc_diff = <<5>>

\* C2: the deltas reported by all reads so far sum to the counter at the
\* last read (the counter starts at 0): what is reported plus what is still
\* pending is the counter, and right after a read nothing is pending.
C2_ExactlyOnce ==
  /\ reported + pending = _value
  /\ (op = "read" => reported = _value)

\* a second read after further motion, the press state having changed too
C2_Witness ==
  /\ op = "read"
  /\ reported = 3
  /\ data.enc_diff = <<0 - 2>>
  /\ pressed

\* C3: right after _read_cb the tracking fields agree with the state.
C3_AfterRead ==
  op = "read" => /\ _last_value = _value
                 /\ _lastpressed = pressed
                 /\ _value_changed = FALSE

\* a read that had both a transition and a delta to report
C3_Witness ==
  /\ op = "read"
  /\ data.state = PRESSED
  /\ data.enc_diff # <<>>
  /\ _value # 0

\* C4: _read_cb writes data.state iff pressed differs from _lastpressed,
\* PRESSED when pressed and RELEASED when not; it writes
\* enc_diff = _value - _last_value when _value_changed was set and nothing
\* otherwise.
C4_ReadEmits ==
  [][_read_cb =>
       /\ (data'.state # None <=> pressed # _lastpressed)
       /\ (data'.state # None =>
             data'.state = (IF pressed THEN PRESSED ELSE RELEASED))
       /\ (_value_changed => data'.enc_diff = <<_value - _last_value>>)
       /\ (~_value_changed => data'.enc_diff = <<>>)]_vars

\* a read that reported a release and no delta
C4_Witness ==
  /\ op = "read"
  /\ data.state = RELEASED
  /\ data.enc_diff = <<>>
  /\ _value # 0

\* C5: a _read_cb with no counter operation and no press or release since
\* the read before reports no transition and a zero delta, and leaves the
\* encoder's fields as they were.
C5_QuietRead ==
  [][(_read_cb /\ (op = "read" \/ (nmut = 0 /\ latest = None))) =>
       /\ data'.state = None
       /\ DeltaOf(data') = 0
       /\ UNCHANGED encoder]_vars

\* two reads in a row, on an encoder that has moved and is pressed
C5_Witness ==
  /\ op = "read"
  /\ hist.after_read
  /\ _value # 0
  /\ pressed

\* C6: a read right after push, on an encoder last reported released,
\* reports PRESSED; a read right after the timer fired, on an encoder last
\* reported pressed, reports RELEASED.
C6_PushThenRelease ==
  [][/\ (_read_cb /\ op = "push" /\ ~_lastpressed => data'.state = PRESSED)
     /\ (_read_cb /\ op = "timer" /\ _lastpressed => data'.state = RELEASED)]_vars

\* the release of a push was reported, by the timer that push created
C6_Witness ==
  /\ op = "read"
  /\ data.state = RELEASED
  /\ hist.latest = RELEASED
  /\ timers = 0
  /\ ~pressed

\* C7 as stated: a read reports the net delta and the latest press or
\* release of the interval, whichever it was.
C7_LatestTransitionReported ==
  [][_read_cb => /\ DeltaOf(data') = pending
                 /\ (latest # None => data'.state = latest)]_vars

\* C7 as amended: a read reports the net delta of the interval, never an
\* intermediate counter; it reports a transition iff pressed differs from
\* the press state last reported, and that transition is then the latest
\* press or release of the interval.
C7_Coalesced ==
  [][_read_cb => /\ DeltaOf(data') = pending
                 /\ (data'.enc_diff # <<>> =>
                       data'.enc_diff[1] = _value - _last_value)
                 /\ (data'.state # None <=> pressed # _lastpressed)
                 /\ (data'.state # None => data'.state = latest)]_vars

\* a press and its release, and several counter calls, fell between two
\* reads: the read reported the net delta and no transition
C7_Witness ==
  /\ op = "read"
  /\ hist.latest = RELEASED
  /\ hist.nmut = 2
  /\ data.state = None
  /\ data.enc_diff = <<1>>
  /\ timers = 0

\* C8 as stated: _value_changed is true iff _value differs from _last_value.
C8_DirtyIffDiffers == _value_changed <=> (_value # _last_value)

\* C8 as amended: _value_changed is true iff inc, dec, fast_inc or fast_dec
\* was called since the last read, and the counter never differs from
\* _last_value while the flag is clear.
C8_DirtyIffMoved ==
  /\ _value_changed <=> (nmut > 0)
  /\ (_value # _last_value => _value_changed)

\* the flag is set although the counter is back at the reported value
C8_Witness ==
  /\ _value_changed
  /\ nmut = 2
  /\ _value = _last_value
  /\ _value # 0

\* C9: only inc, dec, fast_inc and fast_dec change the counter; every
\* other operation, _read_cb included, leaves it as it was, and value()
\* returns it.
C9_CounterFrame ==
  [][/\ (_value' # _value => op' \in CounterOps)
     /\ (_read_cb => _value' = _value)
     /\ (value => ret' = Ret("int", _value) /\ _value' = _value)]_vars

\* a read on a disabled indev of a moved, pressed encoder: the counter kept
C9_Witness ==
  /\ op = "read"
  /\ _value = 5
  /\ data.enc_diff = <<5>>
  /\ data.state = PRESSED
  /\ ~enabled

\* C10: long_push leaves editing mode without sending an event when the
\* group is editing; otherwise it sends one LONG_PRESSED event to the
\* focused object, if there is one, and leaves editing alone; otherwise it
\* does nothing. The encoder's fields are unchanged in each case.
C10_LongPush ==
  [][long_push =>
       /\ (editing => ~editing' /\ sent' = sent)
       /\ (~editing /\ focused => sent' = sent + 1 /\ editing' = editing)
       /\ (~editing /\ ~focused => UNCHANGED <<editing, sent>>)
       /\ UNCHANGED <<encoder, focused, timers, enabled>>]_vars

\* the event was sent on an encoder that is pressed, moved and unread
C10_Witness ==
  /\ op = "long_push"
  /\ sent = 1
  /\ ~editing
  /\ pressed
  /\ _value_changed
  /\ _value # _last_value

\* C12: get_indev returns the indev for index 0 and raises ValueError for
\* every other index, changing nothing; no other operation raises.
C12_GetIndev ==
  [][/\ (get_indev => /\ ret'.kind \in {"indev", "ValueError"}
                      /\ (ret'.kind = "indev" <=> ret'.val = 0)
                      /\ UNCHANGED <<encoder, fast_mult, timers, group, enabled>>)
     /\ (ret'.kind = "ValueError" => op' = "get_indev")]_vars

\* a negative index was refused on an encoder that has moved
C12_Witness ==
  /\ op = "get_indev"
  /\ ret = Ret("ValueError", 0 - 1)
  /\ _value # 0
  /\ pressed

\* C15 as stated: push sets pressed and creates one one-shot timer whose
\* period is the period passed, whatever it is, and def_dur only when the
\* argument is omitted.
C15_PeriodAsPassed ==
  op = "push" =>
    /\ pressed
    /\ created.repeat_count = 1
    /\ created.period =
         (IF created.asked = <<>> THEN DEF_DUR ELSE created.asked[1])

\* C16: while the flag is clear the counter equals the value last reported.
C16_CleanImpliesEqual ==
  (_value_changed = FALSE) => (_value = _last_value)

\* after a read of a moved encoder the flag is clear and the values agree
C16_Witness ==
  /\ _value_changed = FALSE
  /\ op = "read"
  /\ _value = 3
  /\ _last_value = 3
  /\ data.enc_diff = <<3>>

C17_ReportsAlternate ==
  \A i \in 1..Len(reports) :
    reports[i] = (IF i % 2 = 1 THEN PRESSED ELSE RELEASED)

\* a second press was reported after the release of the first
C17_Witness ==
  /\ op = "read"
  /\ reports = <<PRESSED, RELEASED, PRESSED>>
  /\ pushes = 2

\* C18: every push is eventually released: whenever no timer is left to fire
\* the encoder is released and the timers have fired once per push call, and
\* timers that are scheduled do all fire (overlapping pushes included).
C18_EveryPushReleased ==
  /\ [](timers = 0 => ~pressed)
  /\ [](fires + timers = pushes)
  /\ ((timers > 0) ~> (timers = 0 /\ ~pressed /\ fires = pushes))

\* two pushes, both timers fired, the encoder released and not yet read
C18_Witness ==
  /\ op = "timer"
  /\ pushes = 2
  /\ fires = 2
  /\ timers = 0
  /\ ~pressed
  /\ reports = <<PRESSED>>
  /\ _lastpressed

\* C11 (as claimed): EncoderIRQ() with the placeholder Rotary raises the
\* driver-unavailable error (ImportError) and leaves no indev registered
\* with the GUI.
C11_NoPartialAdapter ==
  built \notin {"none", "ok"} => built = "ImportError" /\ ~registered

\* C19: interrupts of the rotary driver may change the counter and call the
\* listener between any two statements of _read_cb; once they have stopped
\* and a read has run from start to end after the last listener call, the
\* deltas reported by all reads sum to the counter's total change.
C19_NoMotionLost ==
  (since.phase = "done" /\ scheduled = 0 /\ pc = "idle") => reported = _value

\* interrupts fired while _read_cb was running, and all 3 steps were reported
C19_Witness ==
  /\ since = [phase |-> "done", raced |-> TRUE]
  /\ scheduled = 0
  /\ pc = "idle"
  /\ op = "read"
  /\ _value = 3
  /\ reported = 3
  /\ data.enc_diff = <<1>>

\* C13 (as claimed): an EncoderWidget built from N groups has N adapters, one
\* per group in list order; get_indev(i) returns the indev of the i-th
\* created adapter for 0 <= i < N and is an error for every other index,
\* negative ones included.
C13_WidgetIndexes ==
  w_built =>
    /\ Len(indevs) = Len(w_groups)
    /\ \A k \in 1..Len(indevs) :
         indevs[k] = [id |-> k, group |-> EncoderGroup(w_groups[k])]
    /\ (w_ret.kind # None =>
          IF w_ret.index >= 0 /\ w_ret.index < Len(indevs)
          THEN w_ret.kind = "indev" /\ w_ret.id = w_ret.index + 1
          ELSE w_ret.kind = "IndexError")
====
